---- MODULE Spec2Model ----
(***************************************************************************)
(* A model of dasshiva/crypto: the ChaCha20 block function, the counter    *)
(* mode loop Encrypt (Decrypt is a macro for it), Poly1305GenKey and       *)
(* Poly1305MAC of chacha20.c, and the quarter-round self-check of main.c.  *)
(*                                                                         *)
(* A uint32_t is a pair <<lo, hi>> of 16-bit halves (TLC's integers are    *)
(* signed 32-bit, so 0xbdb886dc does not fit one); additions wrap at 2^32. *)
(* A uint8_t is 0..255.  C arrays are functions on 0..n-1.  The host is    *)
(* little-endian (the code memcpy's bytes into uint32_t words and reads    *)
(* the words back as bytes), so byte k of word w is bits 8k..8k+7.         *)
(***************************************************************************)
EXTENDS Integers, Sequences, FiniteSets, TLC

(***************************************************************************)
(* 8-, 16- and 32-bit arithmetic                                           *)
(***************************************************************************)
RECURSIVE XorN(_, _, _)
XorN(a, b, n) ==
    IF n = 0 THEN 0
    ELSE (((a % 2) + (b % 2)) % 2) + 2 * XorN(a \div 2, b \div 2, n - 1)

RECURSIVE OrN(_, _, _)
OrN(a, b, n) ==
    IF n = 0 THEN 0
    ELSE (IF (a % 2) + (b % 2) > 0 THEN 1 ELSE 0) + 2 * OrN(a \div 2, b \div 2, n - 1)

RECURSIVE AndN(_, _, _)
AndN(a, b, n) ==
    IF n = 0 THEN 0
    ELSE ((a % 2) * (b % 2)) + 2 * AndN(a \div 2, b \div 2, n - 1)

\* The 8-bit tables of ^ and |, computed once.
XorTab == [a \in 0..255 |-> [b \in 0..255 |-> XorN(a, b, 8)]]
OrTab == [a \in 0..255 |-> [b \in 0..255 |-> OrN(a, b, 8)]]

\* uint8_t ^ uint8_t, uint8_t & uint8_t
XorB(a, b) == XorTab[a][b]
AndB(a, b) == AndN(a, b, 8)

Xor16(a, b) == (XorTab[a \div 256][b \div 256] * 256) + XorTab[a % 256][b % 256]
Or16(a, b) == (OrTab[a \div 256][b \div 256] * 256) + OrTab[a % 256][b % 256]

\* The uint32_t with high half hi and low half lo.
W(hi, lo) == <<lo, hi>>
Lo(w) == w[1]
Hi(w) == w[2]
Zero32 == W(0, 0)
One32 == W(0, 1)

\* uint32_t + uint32_t (wraps at 2^32)
AddW(a, b) ==
    LET s == Lo(a) + Lo(b)
    IN  W((Hi(a) + Hi(b) + (s \div 65536)) % 65536, s % 65536)

\* uint32_t ^ uint32_t, uint32_t | uint32_t
XorW(a, b) == W(Xor16(Hi(a), Hi(b)), Xor16(Lo(a), Lo(b)))
OrW(a, b) == W(Or16(Hi(a), Hi(b)), Or16(Lo(a), Lo(b)))

\* n << x on a uint32_t, 0 <= x < 32: the bits shifted past bit 31 are lost.
ShlW(n, x) ==
    IF x >= 16
    THEN W((Lo(n) * (2^(x - 16))) % 65536, 0)
    ELSE LET l == Lo(n) * (2^x)
         IN  W((((Hi(n) * (2^x)) % 65536) + (l \div 65536)) % 65536, l % 65536)

\* n >> y on a uint32_t, 0 <= y < 32.
ShrW(n, y) ==
    IF y >= 16
    THEN W(0, Hi(n) \div (2^(y - 16)))
    ELSE W(Hi(n) \div (2^y), (Lo(n) \div (2^y)) + ((Hi(n) % (2^y)) * (2^(16 - y))))

\* Byte k (0..3) of a uint32_t in memory, and the uint32_t of four bytes.
ByteOf(w, k) ==
    CASE k = 0 -> Lo(w) % 256
      [] k = 1 -> Lo(w) \div 256
      [] k = 2 -> Hi(w) % 256
      [] k = 3 -> Hi(w) \div 256

WordOf(b0, b1, b2, b3) == W((b3 * 256) + b2, (b1 * 256) + b0)

\* (uint8_t*) words: byte j of an array of uint32_t.
BytesOf(words, j) == ByteOf(words[j \div 4], j % 4)

\* memcpy(dst words, bytes, 4 * nwords): word k of the destination.
WordAt(bytes, k) ==
    WordOf(bytes[4 * k], bytes[(4 * k) + 1], bytes[(4 * k) + 2], bytes[(4 * k) + 3])

(***************************************************************************)
(* chacha20.c: rol, QuarterRound                                           *)
(***************************************************************************)
\* A variant of rol that drops the bits shifted out.
rolNoWrap(n, x) == ShlW(n, x)

rol(n, x) == OrW(ShlW(n, x), ShrW(n, 32 - x))

QuarterRound(state, p1, p2, p3, p4) ==
    LET a0 == state[p1]
        b0 == state[p2]
        c0 == state[p3]
        d0 == state[p4]
        \* Step 1
        a1 == AddW(a0, b0)
        d1 == rol(XorW(d0, a1), 16)
        \* Step 2
        c1 == AddW(c0, d1)
        b1 == rol(XorW(b0, c1), 12)
        \* Step 3
        a2 == AddW(a1, b1)
        d2 == rol(XorW(d1, a2), 8)
        \* Step 4
        c2 == AddW(c1, d2)
        b2 == rol(XorW(b1, c2), 7)
    IN  [[[[state EXCEPT ![p1] = a2] EXCEPT ![p2] = b2]
              EXCEPT ![p3] = c2] EXCEPT ![p4] = d2]


\* main.c has its own copies of rol and QuarterRound (on CryptState.cc_state).
MainRol(n, x) == OrW(ShlW(n, x), ShrW(n, 32 - x))

MainQuarterRound(state, p1, p2, p3, p4) ==
    LET a0 == state[p1]
        b0 == state[p2]
        c0 == state[p3]
        d0 == state[p4]
        a1 == AddW(a0, b0)
        d1 == MainRol(XorW(d0, a1), 16)
        c1 == AddW(c0, d1)
        b1 == MainRol(XorW(b0, c1), 12)
        a2 == AddW(a1, b1)
        d2 == MainRol(XorW(d1, a2), 8)
        c2 == AddW(c1, d2)
        b2 == MainRol(XorW(b1, c2), 7)
    IN  [[[[state EXCEPT ![p1] = a2] EXCEPT ![p2] = b2]
              EXCEPT ![p3] = c2] EXCEPT ![p4] = d2]

(***************************************************************************)
(* chacha20.c: the pieces of ChaCha20Block                                 *)
(***************************************************************************)
\* for (int i = 0; i < 10; i++)
ROUNDS == 10

\* A variant of InitialState that leaves word 12 zero.
InitialStateNoCounter(key_, counter_, nonce_) ==
    [w \in 0..15 |->
        CASE w = 0 -> W(\H6170, \H7865)
          [] w = 1 -> W(\H3320, \H646e)
          [] w = 2 -> W(\H7962, \H2d32)
          [] w = 3 -> W(\H6b20, \H6574)
          [] w \in 4..11 -> WordAt(key_, w - 4)
          [] w = 12 -> Zero32
          [] OTHER -> WordAt(nonce_, w - 13)]

\* The state set up from the fields of a CryptState: constants | key |
\* counter | nonce.
InitialState(key_, counter_, nonce_) ==
    [w \in 0..15 |->
        CASE w = 0 -> W(\H6170, \H7865)
          [] w = 1 -> W(\H3320, \H646e)
          [] w = 2 -> W(\H7962, \H2d32)
          [] w = 3 -> W(\H6b20, \H6574)
          [] w \in 4..11 -> WordAt(key_, w - 4)
          [] w = 12 -> counter_
          [] OTHER -> WordAt(nonce_, w - 13)]

\* A variant of InnerBlock whose second diagonal round ends at word 13.
InnerBlockSwapped(q) ==
    CASE q = 0 -> <<0, 4, 8, 12>>
      [] q = 1 -> <<1, 5, 9, 13>>
      [] q = 2 -> <<2, 6, 10, 14>>
      [] q = 3 -> <<3, 7, 11, 15>>
      [] q = 4 -> <<0, 5, 10, 15>>
      [] q = 5 -> <<1, 6, 11, 13>>
      [] q = 6 -> <<2, 7, 8, 12>>
      [] q = 7 -> <<3, 4, 9, 14>>

\* The q-th (0..7) QuarterRound call of one iteration of the round loop.
InnerBlock(q) ==
    CASE q = 0 -> <<0, 4, 8, 12>>
      [] q = 1 -> <<1, 5, 9, 13>>
      [] q = 2 -> <<2, 6, 10, 14>>
      [] q = 3 -> <<3, 7, 11, 15>>
      [] q = 4 -> <<0, 5, 10, 15>>
      [] q = 5 -> <<1, 6, 11, 12>>
      [] q = 6 -> <<2, 7, 8, 13>>
      [] q = 7 -> <<3, 4, 9, 14>>

\* state->cc_state[i] += working_state[i], for the 16 words.
AddWorking(cc_state, working) == [w \in 0..15 |-> AddW(cc_state[w], working[w])]

\* state->counter++
NextCounter(c) == AddW(c, One32)

(***************************************************************************)
(* chacha20.c: the pieces of Encrypt and Poly1305MAC                       *)
(***************************************************************************)
\* A variant of EncryptCounter that starts at block 0.
EncryptCounterZero == Zero32

\* state.counter = 1 in Encrypt; state->counter = 0 in Poly1305GenKey.
EncryptCounter == One32
GenKeyCounter == Zero32

\* A variant of Slot with one static CryptState for all calls.
SlotStatic(t) == "t1"

\* The CryptState a call works on.  Encrypt's `state` and Poly1305MAC's `ks`
\* are automatic variables: every call has its own.
Slot(t) == t

\* A variant of XorInto that adds the keystream byte.
XorIntoAdd(d, b) == (d + b) % 256

\* data[...] ^= block[j]
XorInto(d, b) == XorB(d, b)

\* A variant of TailLen for a loop written j <= size % 64.
TailLenInclusive(sz) == (sz % 64) + 1

\* The bounds of the two XOR loops of Encrypt: size/64 full blocks, then
\* size % 64 bytes.
FullBlocks(sz) == sz \div 64
TailLen(sz) == sz % 64

\* The buffer after the XOR loop over bytes i*64 .. i*64 + cnt - 1.
XorBlock(buf, i, cnt, cc_state) ==
    [p \in DOMAIN buf |->
        IF p >= i * 64 /\ p < (i * 64) + cnt
        THEN XorInto(buf[p], BytesOf(cc_state, p - (i * 64)))
        ELSE buf[p]]

\* The clamp of r: bytes 3, 7, 11, 15 &= 15 and bytes 4, 8, 12 &= 252 of
\* (uint8_t*) ks.cc_state; the other bytes of the 16 words stay.
ClampByte(j, b) ==
    IF j \in {3, 7, 11, 15} THEN AndB(b, 15)
    ELSE IF j \in {4, 8, 12} THEN AndB(b, 252)
    ELSE b

Clamp(cc_state) ==
    [w \in 0..15 |->
        WordOf(ClampByte(4 * w, ByteOf(cc_state[w], 0)),
               ClampByte((4 * w) + 1, ByteOf(cc_state[w], 1)),
               ClampByte((4 * w) + 2, ByteOf(cc_state[w], 2)),
               ClampByte((4 * w) + 3, ByteOf(cc_state[w], 3)))]

\* memcpy(dest, src, cnt): the cnt bytes copied.
memcpy(src, cnt) == [j \in 0..(cnt - 1) |-> src[j]]

\* A byte read through a pointer; an index outside the caller's buffer reads
\* whatever lies there (MacReadsInside states that this never happens).
ReadByte(buf, p) == IF p \in DOMAIN buf THEN buf[p] ELSE 0

\* A variant of NBlocks that always adds the partial chunk.
NBlocksPlusOne(sz) == (sz \div 16) + 1

\* nblocks = (size % 16 == 0) ? size/16 : (size/16) + 1
NBlocks(sz) == IF sz % 16 = 0 THEN sz \div 16 ELSE (sz \div 16) + 1

\* The number of message bytes chunk i copies: 16 while size > 16, else size.
ChunkLen(sz) == IF sz > 16 THEN 16 ELSE sz

\* uint8_t n[17] = {0}; memcpy(n, start + (i - 1) * 16, cnt); n[cnt] = 0x1
Chunk(msg, i, cnt) ==
    [j \in 0..16 |->
        IF j < cnt THEN ReadByte(msg, ((i - 1) * 16) + j)
        ELSE IF j = cnt THEN 1
        ELSE 0]

\* The carry left by the loop for (j = 0; j <= used; j++) over
\* sum = tag[i] + n[i] + carry.
RECURSIVE CarryLoop(_, _, _, _, _)
CarryLoop(tagbyte, nbyte, j, used_, carry_) ==
    IF j > used_ THEN carry_
    ELSE LET sum == tagbyte + nbyte + carry_
         IN  CarryLoop(tagbyte, nbyte, j + 1, used_, IF sum > 255 THEN 1 ELSE 0)

(***************************************************************************)
(* The callers and their inputs                                            *)
(***************************************************************************)
Threads == {"t1", "t2"}

\* The largest Encrypt buffer and Poly1305MAC message, the bytes the caller
\* owns past `size`, and the ChaCha20Block calls of the block driver.
MaxSize == 130
MaxMsg == 34
Slack == 2
MaxCalls == 3

Sizes == {0, 1, 63, 64, 65, MaxSize}
MsgSizes == {0, 1, 15, 16, 17, 32, MaxMsg}

KeyRFC == [j \in 0..31 |-> j]
KeyFF == [j \in 0..31 |-> 255]
Keys == {KeyRFC, KeyFF}

NonceRFC == [j \in 0..11 |-> IF j = 3 THEN 9 ELSE IF j = 7 THEN 74 ELSE 0]
NonceSeq == [j \in 0..11 |-> ((j * 23) + 200) % 256]
Nonces == {NonceRFC, NonceSeq}

Pattern(kind, cap) ==
    [p \in 0..(cap - 1) |-> IF kind = 0 THEN 0 ELSE ((p * 37) + 11) % 256]

TagZero == [j \in 0..15 |-> 0]
TagA5 == [j \in 0..15 |-> 165]

Counters ==
    {Zero32, One32, W(0, 2), W(0, 65535), W(1, 65535), W(32767, 65535),
     W(65535, 65533), W(65535, 65534), W(65535, 65535)}

Job(prog, len, kind, k, n0, tg, c) ==
    [prog |-> prog, len |-> len, data0 |-> Pattern(kind, len + Slack),
     key0 |-> k, nonce0 |-> n0, tag0 |-> tg, ctr0 |-> c]

IdleJob == Job("none", 0, 0, KeyRFC, NonceRFC, TagZero, Zero32)

EncJobs ==
    {Job("EncDec", sz, kind, k, n0, TagZero, Zero32) :
        sz \in Sizes, kind \in {0, 1}, k \in Keys, n0 \in Nonces}

MacJobs ==
    {Job("MAC", sz, 1, k, n0, tg, Zero32) :
        sz \in MsgSizes, k \in Keys, n0 \in Nonces, tg \in {TagZero, TagA5}}

BlockJobs ==
    {Job("Block", 0, 0, k, n0, TagZero, c) :
        k \in Keys, n0 \in Nonces, c \in Counters}

ConcJobs1 ==
    {Job("Enc", 65, 1, KeyRFC, NonceRFC, TagZero, Zero32),
     Job("MAC", 17, 1, KeyRFC, NonceSeq, TagA5, Zero32)}

ConcJobs2 ==
    {Job("Enc", 1, 1, KeyFF, NonceRFC, TagZero, Zero32),
     Job("MAC", 0, 1, KeyFF, NonceSeq, TagZero, Zero32)}

\* main.c: the initialiser of `state` in main.
MainState ==
    [w \in 0..15 |->
        CASE w = 0 -> W(\H8795, \H31e0) [] w = 1 -> W(\Hc5ec, \Hf37d)
          [] w = 2 -> W(\H5164, \H61b1) [] w = 3 -> W(\Hc9a6, \H2f8a)
          [] w = 4 -> W(\H44c2, \H0ef3) [] w = 5 -> W(\H3390, \Haf7f)
          [] w = 6 -> W(\Hd9fc, \H690b) [] w = 7 -> W(\H2a5f, \H714c)
          [] w = 8 -> W(\H5337, \H2767) [] w = 9 -> W(\Hb00a, \H5631)
          [] w = 10 -> W(\H974c, \H541a) [] w = 11 -> W(\H359e, \H9963)
          [] w = 12 -> W(\H5c97, \H1061) [] w = 13 -> W(\H3d63, \H1689)
          [] w = 14 -> W(\H2098, \Hd9d6) [] w = 15 -> W(\H91db, \Hd320)]

(***************************************************************************)
(* The state                                                               *)
(***************************************************************************)
VARIABLES
    job,            \* per caller: the call it makes and its inputs (never changes)
    data,           \* per caller: the buffer (Encrypt's d, Poly1305MAC's msg)
    key,            \* per caller: the 32-byte key
    nonce,          \* per caller: the 12-byte nonce
    tag,            \* per caller: the 16-byte tag buffer
    pc,             \* per caller: where its call stands
    cs,             \* the CryptState objects (cc_state, key, nonce, counter)
    working_state,  \* per call: ChaCha20Block's working_state
    loc,            \* per call: the loop variables and the return point
    size,           \* per call: the parameter size
    n,              \* per call: Poly1305MAC's n[17]
    rdHigh,         \* per call: 1 + the highest index of msg read so far
    mn              \* main.c: main's state, flag and position

vars == <<job, data, key, nonce, tag, pc, cs, working_state, loc, size, n,
          rdHigh, mn>>

ZeroWords == [w \in 0..15 |-> Zero32]

\* Storage before the code writes it; the code reads none of it first.
FreshCryptState ==
    [cc_state |-> ZeroWords, key |-> [j \in 0..31 |-> 0],
     nonce |-> [j \in 0..11 |-> 0], counter |-> Zero32]

FreshLoc ==
    [i |-> 0, ret |-> "none", rnd |-> 0, q |-> 0, nblocks |-> 0, used |-> 0,
     carry |-> 0, calls |-> 0]

InitWith(jobs, mainpc) ==
    /\ job = jobs
    /\ data = [t \in Threads |-> jobs[t].data0]
    /\ key = [t \in Threads |-> jobs[t].key0]
    /\ nonce = [t \in Threads |-> jobs[t].nonce0]
    /\ tag = [t \in Threads |-> jobs[t].tag0]
    /\ working_state = [t \in Threads |-> ZeroWords]
    /\ size = [t \in Threads |-> 0]
    /\ n = [t \in Threads |-> [j \in 0..16 |-> 0]]
    /\ rdHigh = [t \in Threads |-> 0]
    /\ mn = [pc |-> mainpc, cc_state |-> MainState, flag |-> 0]

\* One caller makes one library call (Encrypt then Decrypt, or Poly1305MAC).
Init ==
    /\ \E j \in EncJobs \cup MacJobs :
          InitWith([t \in Threads |-> IF t = "t1" THEN j ELSE IdleJob], "off")
    /\ pc = [t \in Threads |-> IF t = "t1" THEN "call" ELSE "idle"]
    /\ cs = [t \in Threads |-> FreshCryptState]
    /\ loc = [t \in Threads |-> FreshLoc]

\* Two callers, each making one call, run concurrently.
InitConc ==
    /\ \E j1 \in ConcJobs1, j2 \in ConcJobs2 :
          InitWith([t \in Threads |-> IF t = "t1" THEN j1 ELSE j2], "off")
    /\ pc = [t \in Threads |-> "call"]
    /\ cs = [t \in Threads |-> FreshCryptState]
    /\ loc = [t \in Threads |-> FreshLoc]

\* Either ChaCha20Block is called on a CryptState whose fields are drawn
\* from Keys, Nonces and Counters, or main.c's main runs.
InitBlock ==
    \/ /\ \E j \in BlockJobs :
             /\ InitWith([t \in Threads |-> IF t = "t1" THEN j ELSE IdleJob], "off")
             /\ cs = [t \in Threads |->
                        IF t = "t1"
                        THEN [cc_state |-> ZeroWords, key |-> j.key0,
                              nonce |-> j.nonce0, counter |-> j.ctr0]
                        ELSE FreshCryptState]
       /\ pc = [t \in Threads |-> IF t = "t1" THEN "blk_setup" ELSE "idle"]
       /\ loc = [t \in Threads |->
                    IF t = "t1" THEN [FreshLoc EXCEPT !.ret = "blk_ret"] ELSE FreshLoc]
    \/ /\ InitWith([t \in Threads |-> IdleJob], "start")
       /\ pc = [t \in Threads |-> "idle"]
       /\ cs = [t \in Threads |-> FreshCryptState]
       /\ loc = [t \in Threads |-> FreshLoc]

(***************************************************************************)
(* ChaCha20Block, one step at a time                                       *)
(***************************************************************************)
\* The call of ChaCha20Block(&state), to come back at `back`.
CallBlock(t, back) ==
    /\ pc' = [pc EXCEPT ![t] = "blk_setup"]
    /\ loc' = [loc EXCEPT ![t].ret = back]

\* cc_state = constants | key | counter | nonce
BlockSetup(t) ==
    /\ pc[t] = "blk_setup"
    /\ cs' = [cs EXCEPT ![Slot(t)].cc_state =
                 InitialState(cs[Slot(t)].key, cs[Slot(t)].counter, cs[Slot(t)].nonce)]
    /\ pc' = [pc EXCEPT ![t] = "blk_copy"]
    /\ UNCHANGED <<job, data, key, nonce, tag, working_state, loc, size, n, rdHigh, mn>>

\* memcpy(working_state, state->cc_state, 64), and the round loop's i = 0
BlockCopy(t) ==
    /\ pc[t] = "blk_copy"
    /\ working_state' = [working_state EXCEPT ![t] = cs[Slot(t)].cc_state]
    /\ loc' = [loc EXCEPT ![t].rnd = 0, ![t].q = 0]
    /\ pc' = [pc EXCEPT ![t] = "blk_rounds"]
    /\ UNCHANGED <<job, data, key, nonce, tag, cs, size, n, rdHigh, mn>>

\* One QuarterRound call of the round loop.
BlockQR(t) ==
    /\ pc[t] = "blk_rounds"
    /\ loc[t].rnd < ROUNDS
    /\ LET p == InnerBlock(loc[t].q)
       IN  working_state' = [working_state EXCEPT ![t] =
                                QuarterRound(@, p[1], p[2], p[3], p[4])]
    /\ loc' = [loc EXCEPT ![t].q = (@ + 1) % 8,
                          ![t].rnd = IF loc[t].q = 7 THEN @ + 1 ELSE @]
    /\ UNCHANGED <<job, data, key, nonce, tag, pc, cs, size, n, rdHigh, mn>>

\* The round loop ends; state->cc_state[i] += working_state[i] for all i.
BlockAdd(t) ==
    /\ pc[t] = "blk_rounds"
    /\ ~(loc[t].rnd < ROUNDS)
    /\ cs' = [cs EXCEPT ![Slot(t)].cc_state = AddWorking(@, working_state[t])]
    /\ pc' = [pc EXCEPT ![t] = "blk_inc"]
    /\ UNCHANGED <<job, data, key, nonce, tag, working_state, loc, size, n, rdHigh, mn>>

\* state->counter++, and the return to the caller.
BlockInc(t) ==
    /\ pc[t] = "blk_inc"
    /\ cs' = [cs EXCEPT ![Slot(t)].counter = NextCounter(@)]
    /\ pc' = [pc EXCEPT ![t] = loc[t].ret]
    /\ UNCHANGED <<job, data, key, nonce, tag, working_state, loc, size, n, rdHigh, mn>>

\* The block driver calls ChaCha20Block again on the same CryptState, as the
\* loop of Encrypt does.
BlockAgain(t) ==
    /\ pc[t] = "blk_ret"
    /\ loc[t].calls + 1 < MaxCalls
    /\ pc' = [pc EXCEPT ![t] = "blk_setup"]
    /\ loc' = [loc EXCEPT ![t].calls = @ + 1]
    /\ UNCHANGED <<job, data, key, nonce, tag, cs, working_state, size, n, rdHigh, mn>>

(***************************************************************************)
(* Encrypt, and Decrypt                                                    *)
(***************************************************************************)
\* The entry of Encrypt: the copies of key and nonce, counter = 1, i = 0.
Encrypt(t) ==
    /\ cs' = [cs EXCEPT ![Slot(t)].key = memcpy(key[t], 32),
                        ![Slot(t)].nonce = memcpy(nonce[t], 12),
                        ![Slot(t)].counter = EncryptCounter]
    /\ size' = [size EXCEPT ![t] = job[t].len]
    /\ loc' = [loc EXCEPT ![t].i = 0]
    /\ pc' = [pc EXCEPT ![t] = "enc_loop"]
    /\ UNCHANGED <<job, data, key, nonce, tag, working_state, n, rdHigh, mn>>

\* #define Decrypt(d, s, k, n) Encrypt(d, s, k, n);
Decrypt(t) == Encrypt(t)

CallEncrypt(t) ==
    /\ pc[t] = "call"
    /\ job[t].prog \in {"Enc", "EncDec"}
    /\ Encrypt(t)

CallDecrypt(t) ==
    /\ pc[t] = "ret"
    /\ job[t].prog = "EncDec"
    /\ loc[t].calls = 1
    /\ Decrypt(t)

\* for (i = 0; i < size/64; i++): the test, and the call of ChaCha20Block.
EncryptLoop(t) ==
    /\ pc[t] = "enc_loop"
    /\ IF loc[t].i < FullBlocks(size[t])
       THEN CallBlock(t, "enc_xor")
       ELSE /\ pc' = [pc EXCEPT ![t] = "enc_tail"]
            /\ UNCHANGED loc
    /\ UNCHANGED <<job, data, key, nonce, tag, cs, working_state, size, n, rdHigh, mn>>

\* data[i * 64 + j] ^= block[j] for j < 64, then i++.
EncryptXor(t) ==
    /\ pc[t] = "enc_xor"
    /\ data' = [data EXCEPT ![t] = XorBlock(@, loc[t].i, 64, cs[Slot(t)].cc_state)]
    /\ loc' = [loc EXCEPT ![t].i = @ + 1]
    /\ pc' = [pc EXCEPT ![t] = "enc_loop"]
    /\ UNCHANGED <<job, key, nonce, tag, cs, working_state, size, n, rdHigh, mn>>

\* if (size % 64 != 0): one more block; else Encrypt returns.
EncryptTail(t) ==
    /\ pc[t] = "enc_tail"
    /\ IF size[t] % 64 # 0
       THEN CallBlock(t, "enc_tailxor")
       ELSE /\ pc' = [pc EXCEPT ![t] = "ret"]
            /\ loc' = [loc EXCEPT ![t].calls = @ + 1]
    /\ UNCHANGED <<job, data, key, nonce, tag, cs, working_state, size, n, rdHigh, mn>>

\* data[i * 64 + j] ^= block[j] for j < size % 64, and Encrypt returns.
EncryptTailXor(t) ==
    /\ pc[t] = "enc_tailxor"
    /\ data' = [data EXCEPT ![t] =
                   XorBlock(@, loc[t].i, TailLen(size[t]), cs[Slot(t)].cc_state)]
    /\ pc' = [pc EXCEPT ![t] = "ret"]
    /\ loc' = [loc EXCEPT ![t].calls = @ + 1]
    /\ UNCHANGED <<job, key, nonce, tag, cs, working_state, size, n, rdHigh, mn>>

(***************************************************************************)
(* Poly1305GenKey and Poly1305MAC                                          *)
(***************************************************************************)
\* Poly1305GenKey(&ks, key, nonce) up to its call of ChaCha20Block.
Poly1305GenKey(t) ==
    /\ cs' = [cs EXCEPT ![Slot(t)].counter = GenKeyCounter,
                        ![Slot(t)].key = memcpy(key[t], 32),
                        ![Slot(t)].nonce = memcpy(nonce[t], 12)]
    /\ CallBlock(t, "mac_clamp")

\* The entry of Poly1305MAC.
Poly1305MAC(t) ==
    /\ size' = [size EXCEPT ![t] = job[t].len]
    /\ Poly1305GenKey(t)
    /\ UNCHANGED <<job, data, key, nonce, tag, working_state, n, rdHigh, mn>>

CallMAC(t) ==
    /\ pc[t] = "call"
    /\ job[t].prog = "MAC"
    /\ Poly1305MAC(t)

\* The clamp of r, nblocks, and the chunk loop's i = 1.
MacClamp(t) ==
    /\ pc[t] = "mac_clamp"
    /\ cs' = [cs EXCEPT ![Slot(t)].cc_state = Clamp(@)]
    /\ loc' = [loc EXCEPT ![t].nblocks = NBlocks(size[t]), ![t].i = 1]
    /\ pc' = [pc EXCEPT ![t] = "mac_loop"]
    /\ UNCHANGED <<job, data, key, nonce, tag, working_state, size, n, rdHigh, mn>>

\* One chunk: n[17] = {0}, the memcpy from msg, the 0x01 byte, size -= 16.
MacChunk(t) ==
    /\ pc[t] = "mac_loop"
    /\ loc[t].i <= loc[t].nblocks
    /\ LET cnt == ChunkLen(size[t])
       IN  /\ n' = [n EXCEPT ![t] = Chunk(data[t], loc[t].i, cnt)]
           /\ loc' = [loc EXCEPT ![t].used = cnt]
           /\ rdHigh' = [rdHigh EXCEPT ![t] =
                            IF cnt > 0 /\ ((loc[t].i - 1) * 16) + cnt > @
                            THEN ((loc[t].i - 1) * 16) + cnt ELSE @]
    /\ size' = [size EXCEPT ![t] = IF @ > 16 THEN @ - 16 ELSE @]
    /\ pc' = [pc EXCEPT ![t] = "mac_sum"]
    /\ UNCHANGED <<job, data, key, nonce, tag, cs, working_state, mn>>

\* The loop over sum = tag[i] + n[i] + carry, whose result is dropped; i++.
MacSum(t) ==
    /\ pc[t] = "mac_sum"
    /\ loc' = [loc EXCEPT ![t].carry = CarryLoop(ReadByte(tag[t], loc[t].i),
                                                ReadByte(n[t], loc[t].i),
                                                0, loc[t].used, 0),
                          ![t].i = @ + 1]
    /\ pc' = [pc EXCEPT ![t] = "mac_loop"]
    /\ UNCHANGED <<job, data, key, nonce, tag, cs, working_state, size, n, rdHigh, mn>>

\* The chunk loop ends and Poly1305MAC returns.
MacReturn(t) ==
    /\ pc[t] = "mac_loop"
    /\ ~(loc[t].i <= loc[t].nblocks)
    /\ pc' = [pc EXCEPT ![t] = "ret"]
    /\ loc' = [loc EXCEPT ![t].calls = @ + 1]
    /\ UNCHANGED <<job, data, key, nonce, tag, cs, working_state, size, n, rdHigh, mn>>

(***************************************************************************)
(* main.c                                                                  *)
(***************************************************************************)
\* QuarterRound(&state, 2, 7, 8, 13)
MainCall ==
    /\ mn.pc = "start"
    /\ mn' = [mn EXCEPT !.cc_state = MainQuarterRound(@, 2, 7, 8, 13), !.pc = "check"]
    /\ UNCHANGED <<job, data, key, nonce, tag, pc, cs, working_state, loc, size, n, rdHigh>>

\* The comparison with the four expected words, which sets flag.
MainCheck ==
    /\ mn.pc = "check"
    /\ mn' = [mn EXCEPT !.flag =
                 IF /\ mn.cc_state[2] = W(\Hbdb8, \H86dc)
                    /\ mn.cc_state[7] = W(\Hcfac, \Hafd2)
                    /\ mn.cc_state[8] = W(\He46b, \Hea80)
                    /\ mn.cc_state[13] = W(\Hccc0, \H7c79)
                 THEN 1 ELSE 0,
                        !.pc = "done"]
    /\ UNCHANGED <<job, data, key, nonce, tag, pc, cs, working_state, loc, size, n, rdHigh>>

(***************************************************************************)
(* The specifications                                                      *)
(***************************************************************************)
Next ==
    \E t \in Threads :
        \/ CallEncrypt(t) \/ CallDecrypt(t)
        \/ EncryptLoop(t) \/ EncryptXor(t) \/ EncryptTail(t) \/ EncryptTailXor(t)
        \/ CallMAC(t) \/ MacClamp(t) \/ MacChunk(t) \/ MacSum(t) \/ MacReturn(t)
        \/ BlockSetup(t) \/ BlockCopy(t) \/ BlockQR(t) \/ BlockAdd(t) \/ BlockInc(t)

NextConc ==
    \E t \in Threads :
        \/ CallEncrypt(t)
        \/ EncryptLoop(t) \/ EncryptXor(t) \/ EncryptTail(t) \/ EncryptTailXor(t)
        \/ CallMAC(t) \/ MacClamp(t) \/ MacChunk(t) \/ MacSum(t) \/ MacReturn(t)
        \/ BlockSetup(t) \/ BlockCopy(t) \/ BlockQR(t) \/ BlockAdd(t) \/ BlockInc(t)

NextBlock ==
    \/ \E t \in Threads :
          \/ BlockSetup(t) \/ BlockCopy(t) \/ BlockQR(t) \/ BlockAdd(t)
          \/ BlockInc(t) \/ BlockAgain(t)
    \/ MainCall
    \/ MainCheck

Spec == Init /\ [][Next]_vars
SpecConc == InitConc /\ [][NextConc]_vars
SpecBlock == InitBlock /\ [][NextBlock]_vars

(***************************************************************************)
(* The reference: RFC 8439 bit by bit.  A 32-bit word is <<lo, hi>>, bit k *)
(* of it is RefBit(w, k) with bit 0 the least significant; the operations  *)
(* are defined on the bits.  None of this is used by the model above.      *)
(***************************************************************************)
RefBit(w, k) ==
    IF k < 16 THEN (w[1] \div (2^k)) % 2 ELSE (w[2] \div (2^(k - 16))) % 2

\* The carry into bit k of a + b.
RECURSIVE RefCarry(_, _, _)
RefCarry(a, b, k) ==
    IF k = 0 THEN 0
    ELSE (RefBit(a, k - 1) + RefBit(b, k - 1) + RefCarry(a, b, k - 1)) \div 2

\* Bits k .. k + cnt - 1 of a + b with carry c into bit k, as a number.
RECURSIVE RefAddBits(_, _, _, _, _)
RefAddBits(a, b, k, cnt, c) ==
    IF cnt = 0 THEN 0
    ELSE LET sm == RefBit(a, k) + RefBit(b, k) + c
         IN  (sm % 2) + (2 * RefAddBits(a, b, k + 1, cnt - 1, sm \div 2))

\* Addition modulo 2^32.
RefAdd(a, b) ==
    <<RefAddBits(a, b, 0, 16, 0), RefAddBits(a, b, 16, 16, RefCarry(a, b, 16))>>

\* Bits k .. k + cnt - 1 of a XOR b, as a number.
RECURSIVE RefXorBits(_, _, _, _)
RefXorBits(a, b, k, cnt) ==
    IF cnt = 0 THEN 0
    ELSE (IF RefBit(a, k) = RefBit(b, k) THEN 0 ELSE 1)
            + (2 * RefXorBits(a, b, k + 1, cnt - 1))

RefXor(a, b) == <<RefXorBits(a, b, 0, 16), RefXorBits(a, b, 16, 16)>>

\* Bits k .. k + cnt - 1 of a rotated left by r: bit j of the result is bit
\* j - r (mod 32) of a.
RECURSIVE RefRotlBits(_, _, _, _)
RefRotlBits(a, r, k, cnt) ==
    IF cnt = 0 THEN 0
    ELSE RefBit(a, (k + 32 - r) % 32) + (2 * RefRotlBits(a, r, k + 1, cnt - 1))

RefRotl(a, r) == <<RefRotlBits(a, r, 0, 16), RefRotlBits(a, r, 16, 16)>>

\* The word of four bytes in little-endian order.
RefLE(bytes, at) ==
    <<bytes[at] + (256 * bytes[at + 1]), bytes[at + 2] + (256 * bytes[at + 3])>>

\* a+=b; d^=a; d<<<=16; c+=d; b^=c; b<<<=12; a+=b; d^=a; d<<<=8; c+=d;
\* b^=c; b<<<=7: the words <<a, b, c, d>> after the quarter-round.
RefQR(a, b, c, d) ==
    LET a1 == RefAdd(a, b)
        d1 == RefRotl(RefXor(d, a1), 16)
        c1 == RefAdd(c, d1)
        b1 == RefRotl(RefXor(b, c1), 12)
        a2 == RefAdd(a1, b1)
        d2 == RefRotl(RefXor(d1, a2), 8)
        c2 == RefAdd(c1, d2)
        b2 == RefRotl(RefXor(b1, c2), 7)
    IN  <<a2, b2, c2, d2>>

\* The quarter-round on the words of st (a tuple of 16 words, word w at
\* st[w + 1]) at the indices ix.
RefQRAt(st, ix) ==
    LET r == RefQR(st[ix[1] + 1], st[ix[2] + 1], st[ix[3] + 1], st[ix[4] + 1])
    IN  [st EXCEPT ![ix[1] + 1] = r[1], ![ix[2] + 1] = r[2],
                   ![ix[3] + 1] = r[3], ![ix[4] + 1] = r[4]]

\* The four column rounds, then the four diagonal rounds.
RefRound ==
    <<<<0, 4, 8, 12>>, <<1, 5, 9, 13>>, <<2, 6, 10, 14>>, <<3, 7, 11, 15>>,
      <<0, 5, 10, 15>>, <<1, 6, 11, 12>>, <<2, 7, 8, 13>>, <<3, 4, 9, 14>>>>

\* st after cnt more quarter-rounds of one round, the next being number k
\* (from 0).  (The test of Len only makes TLC compute nx before it goes on.)
RECURSIVE RefQuarterRounds(_, _, _)
RefQuarterRounds(st, k, cnt) ==
    IF cnt = 0 THEN st
    ELSE LET nx == RefQRAt(st, RefRound[k + 1])
         IN  IF Len(nx) = 16 THEN RefQuarterRounds(nx, k + 1, cnt - 1) ELSE nx

\* st after cnt rounds of eight quarter-rounds.
RECURSIVE RefRounds(_, _)
RefRounds(st, cnt) ==
    IF cnt = 0 THEN st
    ELSE LET nx == RefQuarterRounds(st, 0, 8)
         IN  IF Len(nx) = 16 THEN RefRounds(nx, cnt - 1) ELSE nx

\* constants | key | counter | nonce
RefInit(k, n0, c) ==
    <<<<\H7865, \H6170>>, <<\H646e, \H3320>>, <<\H2d32, \H7962>>, <<\H6574, \H6b20>>,
      RefLE(k, 0), RefLE(k, 4), RefLE(k, 8), RefLE(k, 12),
      RefLE(k, 16), RefLE(k, 20), RefLE(k, 24), RefLE(k, 28),
      c, RefLE(n0, 0), RefLE(n0, 4), RefLE(n0, 8)>>

\* The 16 words of the block of (key, nonce, counter), word w at index w + 1:
\* ten rounds of eight quarter-rounds on a copy, added word by word to the
\* initial state.
RefBlock(k, n0, c) ==
    LET st == RefInit(k, n0, c)
        wk == RefRounds(st, 10)
    IN  <<RefAdd(st[1], wk[1]), RefAdd(st[2], wk[2]), RefAdd(st[3], wk[3]),
          RefAdd(st[4], wk[4]), RefAdd(st[5], wk[5]), RefAdd(st[6], wk[6]),
          RefAdd(st[7], wk[7]), RefAdd(st[8], wk[8]), RefAdd(st[9], wk[9]),
          RefAdd(st[10], wk[10]), RefAdd(st[11], wk[11]), RefAdd(st[12], wk[12]),
          RefAdd(st[13], wk[13]), RefAdd(st[14], wk[14]), RefAdd(st[15], wk[15]),
          RefAdd(st[16], wk[16])>>

\* Byte j (0..63) of the serialized block.
RefBlockByte(blk, j) ==
    LET half == blk[(j \div 4) + 1][IF j % 4 < 2 THEN 1 ELSE 2]
    IN  IF j % 2 = 0 THEN half % 256 ELSE half \div 256

\* The blocks of counters 1 .. nb, in order.
RECURSIVE RefKeystream(_, _, _)
RefKeystream(k, n0, nb) ==
    IF nb = 0 THEN <<>>
    ELSE Append(RefKeystream(k, n0, nb - 1), RefBlock(k, n0, <<nb, 0>>))

\* a XOR b on cnt-bit numbers.
RECURSIVE RefXorByte(_, _, _)
RefXorByte(a, b, cnt) ==
    IF cnt = 0 THEN 0
    ELSE (IF a % 2 = b % 2 THEN 0 ELSE 1)
            + (2 * RefXorByte(a \div 2, b \div 2, cnt - 1))

\* The ciphertext of the first len bytes of buf: byte p is XORed with byte
\* p mod 64 of the block of counter 1 + floor(p / 64).
RefEncrypt(buf, len, k, n0) ==
    LET ks == RefKeystream(k, n0, (len + 63) \div 64)
    IN  [p \in 0..(len - 1) |->
            RefXorByte(buf[p], RefBlockByte(ks[(p \div 64) + 1], p % 64), 8)]

WordLess(a, b) == a[2] < b[2] \/ (a[2] = b[2] /\ a[1] < b[1])

(***************************************************************************)
(* The reference: Poly1305 (RFC 8439 section 2.5).  A number below 2^130   *)
(* is a tuple of ten 13-bit limbs, the least significant first.            *)
(***************************************************************************)
\* Bit b of the little-endian number held in bytes[at .. at + cnt - 1].
RefByteBit(bytes, at, cnt, b) ==
    IF b < 8 * cnt THEN (bytes[at + (b \div 8)] \div (2^(b % 8))) % 2 ELSE 0

\* Bits b .. b + w - 1 of that number, as a number.
RECURSIVE RefByteBits(_, _, _, _, _)
RefByteBits(bytes, at, cnt, b, w) ==
    IF w = 0 THEN 0
    ELSE RefByteBit(bytes, at, cnt, b)
            + (2 * RefByteBits(bytes, at, cnt, b + 1, w - 1))

RefNum(bytes, at, cnt) ==
    <<RefByteBits(bytes, at, cnt, 0, 13), RefByteBits(bytes, at, cnt, 13, 13),
      RefByteBits(bytes, at, cnt, 26, 13), RefByteBits(bytes, at, cnt, 39, 13),
      RefByteBits(bytes, at, cnt, 52, 13), RefByteBits(bytes, at, cnt, 65, 13),
      RefByteBits(bytes, at, cnt, 78, 13), RefByteBits(bytes, at, cnt, 91, 13),
      RefByteBits(bytes, at, cnt, 104, 13), RefByteBits(bytes, at, cnt, 117, 13)>>

\* Limb k (from 0) of a number, 0 past its end.
RefLimb(a, k) == IF k + 1 <= Len(a) THEN a[k + 1] ELSE 0

\* Column k of the product a * b: the sum of a_i * b_j over i + j = k.
RECURSIVE RefColumn(_, _, _, _)
RefColumn(a, b, k, i) ==
    IF i > k THEN 0
    ELSE (RefLimb(a, i) * RefLimb(b, k - i)) + RefColumn(a, b, k, i + 1)

\* The cnt limbs from limb k on of the number whose columns are col(k), with
\* the carry c coming in: every limb is cut to 13 bits and the rest carried.
RECURSIVE RefCarryMul(_, _, _, _, _)
RefCarryMul(a, b, k, cnt, c) ==
    IF cnt = 0 THEN <<>>
    ELSE LET v == RefColumn(a, b, k, 0) + c
         IN  <<v % 8192>> \o RefCarryMul(a, b, k + 1, cnt - 1, v \div 8192)

\* The same for a tuple of limbs that may exceed 13 bits; one limb more than
\* the tuple has is produced.
RECURSIVE RefCarryLimbs(_, _, _)
RefCarryLimbs(a, k, c) ==
    IF k > Len(a) THEN <<c>>
    ELSE LET v == a[k] + c
         IN  <<v % 8192>> \o RefCarryLimbs(a, k + 1, v \div 8192)

\* lo + 5 * hi for x = lo + 2^130 * hi (2^130 = 5 modulo 2^130 - 5), in 11
\* limbs of 13 bits.
RefFold(x) ==
    RefCarryLimbs([k \in 1..10 |-> RefLimb(x, k - 1) + (5 * RefLimb(x, k + 9))], 1, 0)

\* x modulo 2^130 - 5, for x of at most 20 limbs.
RefModP(x) ==
    LET f == RefFold(RefFold(x))
    IN  IF (\A k \in 2..10 : f[k] = 8191) /\ f[1] >= 8187
        THEN <<f[1] - 8187, 0, 0, 0, 0, 0, 0, 0, 0, 0>>
        ELSE SubSeq(f, 1, 10)

\* ((acc + chunk) * r) modulo 2^130 - 5
RefPolyStep(acc, chunk, r) ==
    RefModP(RefCarryMul([k \in 1..10 |-> acc[k] + chunk[k]], r, 0, 20, 0))

\* r: bytes 0 .. 15 of the block of counter 0, clamped; byte j of it.
RefClampByte(blk, j) ==
    LET b == RefBlockByte(blk, j)
    IN  IF j \in {3, 7, 11, 15} THEN b % 16
        ELSE IF j \in {4, 8, 12} THEN b - (b % 4)
        ELSE b

\* The accumulator after the first cnt chunks of the message.
RECURSIVE RefPolyAcc(_, _, _, _)
RefPolyAcc(msg, len, r, cnt) ==
    IF cnt = 0 THEN <<0, 0, 0, 0, 0, 0, 0, 0, 0, 0>>
    ELSE LET lo == 16 * (cnt - 1)
             cl == IF len - lo < 16 THEN len - lo ELSE 16
             ch == [j \in 0..16 |-> IF j < cl THEN msg[lo + j]
                                    ELSE IF j = cl THEN 1 ELSE 0]
         IN  RefPolyStep(RefPolyAcc(msg, len, r, cnt - 1), RefNum(ch, 0, 17), r)

\* Byte j of a number in limbs.
RECURSIVE RefLimbBits(_, _, _)
RefLimbBits(a, b, w) ==
    IF w = 0 THEN 0
    ELSE ((RefLimb(a, b \div 13) \div (2^(b % 13))) % 2)
            + (2 * RefLimbBits(a, b + 1, w - 1))

\* Bytes j .. 15 of (acc + s) mod 2^128, with the carry c into byte j.
RECURSIVE RefAddS(_, _, _, _)
RefAddS(acc, s, j, c) ==
    IF j = 16 THEN <<>>
    ELSE LET v == RefLimbBits(acc, 8 * j, 8) + s[j] + c
         IN  <<v % 256>> \o RefAddS(acc, s, j + 1, v \div 256)

\* The tag of the message under the one-time key (r, s), r clamped: the 16
\* bytes at indices 1 .. 16.
RefTag(msg, len, rbytes, sbytes) ==
    RefAddS(RefPolyAcc(msg, len, RefNum(rbytes, 0, 16), (len + 15) \div 16),
            sbytes, 0, 0)

\* The tag of Poly1305MAC(tag, msg, len, key, nonce).
RefPoly1305(msg, len, k, n0) ==
    LET blk == RefBlock(k, n0, <<0, 0>>)
    IN  RefTag(msg, len, [j \in 0..15 |-> RefClampByte(blk, j)],
               [j \in 0..15 |-> RefBlockByte(blk, 16 + j)])

(***************************************************************************)
(* The claims                                                              *)
(***************************************************************************)
\* C7: for every (key, nonce, counter) the block function sets the state up
\* as constants | key | counter | nonce, copies it to the working buffer,
\* applies 10 rounds of the four column and the four diagonal quarter-rounds
\* and leaves in cc_state the word-wise sums initial + working mod 2^32.
C7_BlockFunction ==
    \A t \in Threads :
        /\ pc[t] = "blk_copy" =>
              \A w \in 0..15 :
                  cs[t].cc_state[w] =
                      RefInit(cs[t].key, cs[t].nonce, cs[t].counter)[w + 1]
        /\ (pc[t] = "blk_rounds" /\ loc[t].rnd = 0 /\ loc[t].q = 0) =>
              working_state[t] = cs[t].cc_state
        /\ pc[t] = "blk_inc" =>
              LET blk == RefBlock(cs[t].key, cs[t].nonce, cs[t].counter)
              IN  \A w \in 0..15 : cs[t].cc_state[w] = blk[w + 1]

\* The RFC 8439 section 2.3.2 vector: key 00..1f, nonce 00 00 00 09 00 00 00
\* 4a 00 00 00 00, counter 1.
C7_Witness ==
    /\ pc["t1"] = "blk_inc"
    /\ cs["t1"].key = KeyRFC /\ cs["t1"].nonce = NonceRFC /\ cs["t1"].counter = One32
    /\ cs["t1"].cc_state[0] = W(\He4e7, \Hf110)
    /\ cs["t1"].cc_state[15] = W(\H4e3c, \H50a2)

\* C8: QuarterRound on four distinct indices replaces the four words by
\* the result of the quarter-round and leaves the other 12 words as they
\* were; main.c's QuarterRound(2, 7, 8, 13) on its state gives 0xbdb886dc,
\* 0xcfacafd2, 0xe46bea80, 0xccc07c79 and its check sets flag.
C8_QuarterRound ==
    /\ [][\A t \in Threads :
            BlockQR(t) =>
               LET ix == InnerBlock(loc[t].q)
                   old == working_state[t]
                   new == working_state'[t]
                   r == RefQR(old[ix[1]], old[ix[2]], old[ix[3]], old[ix[4]])
               IN  /\ Cardinality({ix[1], ix[2], ix[3], ix[4]}) = 4
                   /\ new[ix[1]] = r[1] /\ new[ix[2]] = r[2]
                   /\ new[ix[3]] = r[3] /\ new[ix[4]] = r[4]
                   /\ \A w \in (0..15) \ {ix[1], ix[2], ix[3], ix[4]} :
                         new[w] = old[w]]_vars
    /\ [](mn.pc \in {"check", "done"} =>
             /\ mn.cc_state[2] = <<\H86dc, \Hbdb8>>
             /\ mn.cc_state[7] = <<\Hafd2, \Hcfac>>
             /\ mn.cc_state[8] = <<\Hea80, \He46b>>
             /\ mn.cc_state[13] = <<\H7c79, \Hccc0>>
             /\ \A w \in (0..15) \ {2, 7, 8, 13} : mn.cc_state[w] = MainState[w])
    /\ [](mn.pc = "done" => mn.flag = 1)

C8_Witness ==
    /\ mn.pc = "done"
    /\ mn.flag = 1
    /\ mn.cc_state[2] = <<\H86dc, \Hbdb8>>
    /\ mn.cc_state[13] = <<\H7c79, \Hccc0>>

\* C3: when the block counter would pass 0xFFFFFFFF the call fails with
\* CounterOverflow; the counter never wraps, so every block of a message
\* has a counter above the one before it.
C3_CounterOverflow ==
    [][\A t \in Threads :
          BlockInc(t) =>
             \/ WordLess(cs[t].counter, cs'[t].counter)
             \/ pc'[t] = "CounterOverflow"]_vars

\* A call has set the state up at least once and has not returned.
Initialised(t) ==
    \/ pc[t] \in {"blk_copy", "blk_rounds", "blk_inc", "enc_xor", "enc_tailxor",
                  "mac_clamp", "mac_loop", "mac_sum"}
    \/ /\ pc[t] \in {"enc_loop", "enc_tail", "blk_setup"}
       /\ job[t].prog = "EncDec"
       /\ cs[t].counter # <<1, 0>>

\* words 0-3 the constants, 4-11 the caller's key, 12 the counter field,
\* 13-15 the caller's nonce
Layout(t) ==
    LET st == RefInit(key[t], nonce[t], cs[t].counter)
    IN  \A w \in 0..15 : cs[t].cc_state[w] = st[w + 1]

\* C9 as stated: at every point of an Encrypt or Poly1305MAC operation after
\* the first state initialisation, cc_state is constants | key | counter
\* field | nonce.
C9_AlwaysLayout == \A t \in Threads : Initialised(t) => Layout(t)

\* C9 amended: from the end of the state initialisation of ChaCha20Block to
\* the end of its rounds, cc_state is constants | key | counter field |
\* nonce.
C9_LayoutDuringRounds ==
    \A t \in Threads : pc[t] \in {"blk_copy", "blk_rounds"} => Layout(t)

C9_Witness ==
    /\ pc["t1"] = "blk_rounds"
    /\ loc["t1"].rnd = 9
    /\ cs["t1"].counter = <<3, 0>>
    /\ cs["t1"].cc_state[12] = <<3, 0>>
    /\ job["t1"].prog = "EncDec"

\* C1: Decrypt with (K, N) on the result of Encrypt with (K, N) on P gives
\* back exactly P, for every length.
C1_RoundTrip ==
    \A t \in Threads :
        (job[t].prog = "EncDec" /\ pc[t] = "ret" /\ loc[t].calls = 2) =>
            \A p \in 0..(job[t].len - 1) : data[t][p] = job[t].data0[p]

C1_Witness ==
    /\ job["t1"].prog = "EncDec" /\ pc["t1"] = "ret" /\ loc["t1"].calls = 2
    /\ job["t1"].len = 65
    /\ job["t1"].data0[64] = 75
    /\ data["t1"] = job["t1"].data0

\* C2: after Encrypt, byte p < size is the input byte XOR byte p mod 64 of
\* the block of (key, nonce, 1 + floor(p / 64)), and ceil(size / 64) blocks
\* were generated, the counter having started at 1.
C2_Keystream ==
    \A t \in Threads :
        (job[t].prog = "EncDec" /\ pc[t] = "ret" /\ loc[t].calls = 1) =>
            /\ LET ct == RefEncrypt(job[t].data0, job[t].len, key[t], nonce[t])
               IN  \A p \in 0..(job[t].len - 1) : data[t][p] = ct[p]
            /\ cs[t].counter = <<1 + ((job[t].len + 63) \div 64), 0>>

C2_Witness ==
    /\ job["t1"].prog = "EncDec" /\ pc["t1"] = "ret" /\ loc["t1"].calls = 1
    /\ job["t1"].len = 65
    /\ cs["t1"].counter = <<3, 0>>
    /\ data["t1"][64] # job["t1"].data0[64]

\* C6: Encrypt changes only bytes 0 .. size - 1 of the buffer: the caller's
\* key and nonce stay, no byte at an index >= size is written, and with
\* size = 0 nothing changes.
C6_Frame ==
    \A t \in Threads :
        job[t].prog = "EncDec" =>
            /\ key[t] = job[t].key0
            /\ nonce[t] = job[t].nonce0
            /\ DOMAIN data[t] = DOMAIN job[t].data0
            /\ \A p \in DOMAIN data[t] :
                  p >= job[t].len => data[t][p] = job[t].data0[p]

C6_Witness ==
    /\ job["t1"].prog = "EncDec" /\ pc["t1"] = "ret" /\ loc["t1"].calls = 1
    /\ job["t1"].len = 63
    /\ data["t1"][62] # job["t1"].data0[62]
    /\ data["t1"][63] = job["t1"].data0[63]

\* The number of 16-byte chunks of a message of len bytes.
RefChunks(len) == (len + 15) \div 16

\* Chunk i (from 1) of the message: its bytes, then 0x01, then zeros.
RefChunk(msg, len, i) ==
    LET lo == 16 * (i - 1)
        cl == IF len - lo < 16 THEN len - lo ELSE 16
    IN  [j \in 0..16 |-> IF j < cl THEN msg[lo + j] ELSE IF j = cl THEN 1 ELSE 0]

\* C10: Poly1305MAC processes exactly ceil(L / 16) chunks in message order,
\* chunk i holding bytes 16(i-1) .. min(16i, L) - 1 of the message in a
\* zeroed 17-byte buffer with 0x01 at the index equal to the chunk's length,
\* and reads no byte of the message past L - 1.
C10_Chunks ==
    \A t \in Threads :
        job[t].prog = "MAC" =>
            /\ pc[t] = "mac_sum" =>
                  /\ loc[t].i <= RefChunks(job[t].len)
                  /\ n[t] = RefChunk(job[t].data0, job[t].len, loc[t].i)
            /\ pc[t] = "ret" => loc[t].i - 1 = RefChunks(job[t].len)
            /\ rdHigh[t] <= job[t].len

C10_Witness ==
    /\ job["t1"].prog = "MAC" /\ pc["t1"] = "mac_sum"
    /\ job["t1"].len = 32
    /\ loc["t1"].i = 2
    /\ n["t1"][15] = job["t1"].data0[31]
    /\ n["t1"][16] = 1
    /\ rdHigh["t1"] = 32

\* C4: Poly1305MAC leaves in tag the 16 little-endian bytes of (acc + s)
\* mod 2^128, acc being 0 updated per chunk by ((acc + chunk) * r) mod
\* (2^130 - 5), with r (clamped) and s bytes 0-15 and 16-31 of the block of
\* counter 0; for the empty message the tag is s.
C4_TagIsPoly1305 ==
    \A t \in Threads :
        (job[t].prog = "MAC" /\ pc[t] = "ret") =>
            LET tg == RefPoly1305(job[t].data0, job[t].len, key[t], nonce[t])
            IN  \A j \in 0..15 : tag[t][j] = tg[j + 1]

\* C5: calls running concurrently on disjoint buffers, their steps
\* interleaved in any order, each give the result they give alone: every
\* call works on a CryptState of its own, holding its own key, nonce and
\* counter, and when all have returned every Encrypt buffer holds the
\* ciphertext of its input and every Poly1305MAC has gone through the
\* chunks of its own message and left its tag buffer as it does alone.
C5_Isolation ==
    /\ \A t \in Threads :
          pc[t] \notin {"idle", "call"} =>
              /\ cs[t].key = key[t]
              /\ cs[t].nonce = nonce[t]
    /\ (\A t \in Threads : pc[t] = "ret") =>
          \A t \in Threads :
              /\ job[t].prog = "Enc" =>
                    /\ LET ct == RefEncrypt(job[t].data0, job[t].len, key[t], nonce[t])
                       IN  \A p \in 0..(job[t].len - 1) : data[t][p] = ct[p]
                    /\ \A p \in DOMAIN data[t] :
                          p >= job[t].len => data[t][p] = job[t].data0[p]
                    /\ cs[t].counter = <<1 + ((job[t].len + 63) \div 64), 0>>
              /\ job[t].prog = "MAC" =>
                    /\ tag[t] = job[t].tag0
                    /\ data[t] = job[t].data0
                    /\ loc[t].i - 1 = RefChunks(job[t].len)
                    /\ job[t].len > 0 =>
                          n[t] = RefChunk(job[t].data0, job[t].len,
                                          RefChunks(job[t].len))
                    /\ LET blk == RefBlock(key[t], nonce[t], <<0, 0>>)
                       IN  \A j \in 0..31 :
                              BytesOf(cs[t].cc_state, j) =
                                  IF j < 16 THEN RefClampByte(blk, j)
                                  ELSE RefBlockByte(blk, j)

C5_Witness ==
    /\ \A t \in Threads : pc[t] = "ret"
    /\ job["t1"].prog = "Enc" /\ job["t2"].prog = "MAC"
    /\ data["t1"][64] # job["t1"].data0[64]
    /\ cs["t1"].key # cs["t2"].key

====
